---- MODULE Spec2Model ----
(***************************************************************************)
(* A model of src/src/main.rs: the pattern compiler (parse_pattern,        *)
(* make_pattern), the backtracking matcher (Pattern::try_match) and the    *)
(* search loop (match_pattern, match_string).                              *)
(*                                                                         *)
(* A character is a one-character string; a pattern or a text is a         *)
(* sequence of characters.  A Rust &str is indexed two ways by the code:   *)
(* input_line.len() and input_line[a..b] count BYTES of the UTF-8          *)
(* encoding, input_line.chars().nth(k) counts CHARACTERS.  The model keeps *)
(* both: every character has a Width in bytes.                             *)
(***************************************************************************)
EXTENDS Integers, Sequences, FiniteSets, TLC

(***************************************************************************)
(* Bounds of the model.                                                    *)
(***************************************************************************)
MaxTextLen == 3
MaxSetLen == 2

(***************************************************************************)
(* Characters.                                                             *)
(***************************************************************************)
\* "U+00E9" stands for the character e-acute, the one character of the model
\* whose UTF-8 encoding has two bytes (C3 A9); every other one has one byte.
Width(c) == IF c = "U+00E9" THEN 2 ELSE 1

Digits == {"0", "1", "2", "3", "4", "5", "6", "7", "8", "9"}

Letters == {"a", "b", "c", "d", "w", "U+00E9"}

\* char::is_numeric
IsNumeric(c) == c \in Digits

\* char::is_alphanumeric
IsAlphanumeric(c) == c \in Letters \cup Digits

RECURSIVE ByteLen(_)
\* str::len: the length in bytes
ByteLen(s) == IF s = <<>> THEN 0 ELSE Width(Head(s)) + ByteLen(Tail(s))

\* the byte offset at which character number k (from 0) starts
ByteOffset(s, k) == ByteLen(SubSeq(s, 1, k))

\* str::is_char_boundary
IsCharBoundary(s, off) == \E k \in 0..Len(s) : ByteOffset(s, k) = off

CharsBefore(s, off) == CHOOSE k \in 0..Len(s) : ByteOffset(s, k) = off

\* Option::None, and the absent `next` of a Pattern
None == [none |-> TRUE]

IsSome(x) == x # None

\* input_line.chars().nth(index): None at or past the number of characters
NthChar(s, index) == IF index < Len(s) THEN [c |-> s[index + 1]] ELSE None

\* input_line[a..b] is a byte slice; it panics unless a <= b <= len and both
\* offsets are character boundaries.
SliceOk(s, a, b) == a <= b /\ IsCharBoundary(s, a) /\ IsCharBoundary(s, b)

Slice(s, a, b) == SubSeq(s, CharsBefore(s, a) + 1, CharsBefore(s, b))

(***************************************************************************)
(* The pattern tree: enum ALLOWABLE, enum OCCURENCE, struct Pattern.       *)
(***************************************************************************)
Digit == [kind |-> "Digit"]
Alnum == [kind |-> "Alnum"]
Wildcard == [kind |-> "Wildcard"]
StartOfString == [kind |-> "StartOfString"]
EndOfString == [kind |-> "EndOfString"]
CharSet(set) == [kind |-> "CharSet", set |-> set]
NegCharSet(set) == [kind |-> "NegCharSet", set |-> set]
Group(patterns) == [kind |-> "Group", patterns |-> patterns]
Capture(num) == [kind |-> "Capture", num |-> num]

Pattern(allowable, repeat, next, capture_count) ==
    [allowable |-> allowable, repeat |-> repeat, next |-> next,
     capture_count |-> capture_count]

(***************************************************************************)
(* parse_pattern.  The Peekable<Chars> is the pattern p and the number pos *)
(* of characters already taken; cs.counter is threaded as counter.         *)
(* Results carry `unclosed`, the set of constructs whose scanning loop was *)
(* ended by the end of the pattern instead of by its closing delimiter,    *)
(* and `st`, "panic" when panic!("Illegal Input") is executed.             *)
(***************************************************************************)
Peek(p, pos) == IF pos < Len(p) THEN [c |-> p[pos + 1]] ELSE None

RECURSIVE ParseNum(_, _)
\* match_num.parse::<usize>() of a string of decimal digits, acc the value so far
ParseNum(ds, acc) ==
    IF ds = <<>> THEN acc
    ELSE ParseNum(Tail(ds), 10 * acc + (CHOOSE n \in 0..9 : ToString(n) = Head(ds)))

RECURSIVE ScanDigits(_, _)
\* the while loop that takes the digits following the first one
ScanDigits(p, pos) ==
    IF IsSome(Peek(p, pos)) /\ IsNumeric(Peek(p, pos).c)
    THEN ScanDigits(p, pos + 1) ELSE pos

\* the '\\' arm
ParseEscape(p, pos) ==
    LET escaped == Peek(p, pos) IN
    IF ~IsSome(escaped) THEN [allowable |-> Wildcard, pos |-> pos]
    ELSE IF escaped.c = "d" THEN [allowable |-> Digit, pos |-> pos + 1]
    ELSE IF escaped.c = "w" THEN [allowable |-> Alnum, pos |-> pos + 1]
    ELSE IF IsNumeric(escaped.c)
         THEN LET e == ScanDigits(p, pos + 1) IN
              [allowable |-> Capture(ParseNum(SubSeq(p, pos + 1, e), 0)), pos |-> e]
    ELSE [allowable |-> Wildcard, pos |-> pos + 1]

\* one character of a bracket expression other than ']'
CharsetScanned(c, neg, charset) ==
    IF c = "^" THEN [neg |-> TRUE, charset |-> charset]
    ELSE [neg |-> neg, charset |-> charset \cup {c}]

RECURSIVE ParseCharset(_, _, _, _)
\* the '[' arm: the loop `while let Some(c) = chars.next()`
ParseCharset(p, pos, neg, charset) ==
    LET c == Peek(p, pos) IN
    IF ~IsSome(c)
    THEN [allowable |-> Wildcard, pos |-> pos, unclosed |-> {"charset"}]
    ELSE IF c.c = "]"
    THEN [allowable |-> IF neg THEN NegCharSet(charset) ELSE CharSet(charset),
          pos |-> pos + 1, unclosed |-> {}]
    ELSE LET s == CharsetScanned(c.c, neg, charset) IN
         ParseCharset(p, pos + 1, s.neg, s.charset)

RECURSIVE ParsePattern(_, _, _)
RECURSIVE ParseAlternatives(_, _, _, _, _)

\* the '(' arm after the first alternative: the loop
\* `while let Some(next) = chars.next()`
ParseAlternatives(p, pos, counter, patterns, unclosed) ==
    LET next == Peek(p, pos) IN
    IF ~IsSome(next)
    THEN [allowable |-> Group(patterns), pos |-> pos, counter |-> counter,
          unclosed |-> unclosed \cup {"group"}, st |-> "ok"]
    ELSE IF next.c = ")"
    THEN [allowable |-> Group(patterns), pos |-> pos + 1, counter |-> counter,
          unclosed |-> unclosed, st |-> "ok"]
    ELSE IF next.c = "|"
    THEN LET sub == ParsePattern(p, pos + 1, counter) IN
         IF sub.st # "ok"
         THEN [allowable |-> Group(patterns), pos |-> sub.pos,
               counter |-> sub.counter, unclosed |-> unclosed \cup sub.unclosed,
               st |-> sub.st]
         ELSE ParseAlternatives(p, sub.pos, sub.counter,
                                Append(patterns, sub.node),
                                unclosed \cup sub.unclosed)
    ELSE [allowable |-> Group(patterns), pos |-> pos + 1, counter |-> counter,
          unclosed |-> unclosed, st |-> "panic"]

\* `if let Some(first) = chars.next() { match first { ... } }`
ParseAtom(p, pos, counter) ==
    LET first == Peek(p, pos)
        plain(allowable, q) ==
            [allowable |-> allowable, capture_count |-> 0, pos |-> q,
             counter |-> counter, unclosed |-> {}, st |-> "ok"]
    IN
    IF ~IsSome(first) THEN plain(Wildcard, pos)
    ELSE IF first.c = "\\"
    THEN LET e == ParseEscape(p, pos + 1) IN plain(e.allowable, e.pos)
    ELSE IF first.c = "("
    THEN LET sub == ParsePattern(p, pos + 1, counter + 1) IN
         IF sub.st # "ok"
         THEN [allowable |-> Wildcard, capture_count |-> counter, pos |-> sub.pos,
               counter |-> sub.counter, unclosed |-> sub.unclosed, st |-> sub.st]
         ELSE LET g == ParseAlternatives(p, sub.pos, sub.counter, <<sub.node>>,
                                         sub.unclosed) IN
              [allowable |-> g.allowable, capture_count |-> counter, pos |-> g.pos,
               counter |-> g.counter, unclosed |-> g.unclosed, st |-> g.st]
    ELSE IF first.c = "["
    THEN LET s == ParseCharset(p, pos + 1, FALSE, {}) IN
         [allowable |-> s.allowable, capture_count |-> 0, pos |-> s.pos,
          counter |-> counter, unclosed |-> s.unclosed, st |-> "ok"]
    ELSE IF first.c = "." THEN plain(Wildcard, pos + 1)
    ELSE IF first.c = "^" THEN plain(StartOfString, pos + 1)
    ELSE IF first.c = "$" THEN plain(EndOfString, pos + 1)
    ELSE plain(CharSet({first.c}), pos + 1)

\* the quantifier suffix
ParseQuantifier(p, pos) ==
    LET peek == Peek(p, pos) IN
    IF IsSome(peek) /\ peek.c = "+" THEN [repeat |-> "OnceOrMore", pos |-> pos + 1]
    ELSE IF IsSome(peek) /\ peek.c = "?" THEN [repeat |-> "Optional", pos |-> pos + 1]
    ELSE [repeat |-> "Once", pos |-> pos]

\* whether the node just read ends its chain
EndsChain(p, pos) ==
    \/ ~IsSome(Peek(p, pos))
    \/ Peek(p, pos).c = "|"
    \/ Peek(p, pos).c = ")"

ParsePattern(p, pos, counter) ==
    LET a == ParseAtom(p, pos, counter)
        q == ParseQuantifier(p, a.pos)
        rest == ParsePattern(p, q.pos, a.counter)
    IN
    IF a.st # "ok"
    THEN [node |-> None, pos |-> a.pos, counter |-> a.counter,
          unclosed |-> a.unclosed, st |-> a.st]
    ELSE IF EndsChain(p, q.pos)
    THEN [node |-> Pattern(a.allowable, q.repeat, None, a.capture_count),
          pos |-> q.pos, counter |-> a.counter, unclosed |-> a.unclosed,
          st |-> "ok"]
    ELSE IF rest.st # "ok" THEN [rest EXCEPT !.unclosed = @ \cup a.unclosed]
    ELSE [node |-> Pattern(a.allowable, q.repeat, rest.node, a.capture_count),
          pos |-> rest.pos, counter |-> rest.counter,
          unclosed |-> a.unclosed \cup rest.unclosed, st |-> "ok"]

\* make_pattern
make_pattern(pattern, counter) == ParsePattern(pattern, 0, counter)

(***************************************************************************)
(* Pattern::try_match.  A call returns [success, end]; the model adds      *)
(*   cs  : the CaptureState the call leaves behind (it is a &mut),         *)
(*   st  : "ok" when the call returns, "panic" when an unwrap() of None or *)
(*         a byte slice off a character boundary aborts the process,       *)
(*         "overflow" when the call invokes itself with its own arguments  *)
(*         (endless recursion, ended by the overflow of the stack),        *)
(*   obs : observations of the calls made, used to state properties; they  *)
(*         never influence success, end, cs or st:                         *)
(*         fresh     the groups whose capture was written,                 *)
(*         stale     the groups whose capture, not written by these calls, *)
(*                   a backreference compared equal to the text,           *)
(*         tried, bodyok, contfail                                         *)
(*                   <<<<group, index>>, j, n>>: alternative j of n of the *)
(*                   group was tried at index, its body matched, the       *)
(*                   continuation after it failed,                         *)
(*         groupfail <<<<group, index>>, n>>: the loop over the n          *)
(*                   alternatives ended and the group failed at index,     *)
(*         atend     <<kind, repeat, index>>: a call with index >= len,    *)
(*         endfail   those of atend that the bounds check failed,          *)
(*         oob       the indices at which chars().nth() gave None.         *)
(***************************************************************************)
NoObs ==
    [fresh |-> {}, stale |-> {}, tried |-> {}, bodyok |-> {}, contfail |-> {},
     groupfail |-> {}, atend |-> {}, endfail |-> {}, oob |-> {}]

Ret(success, end, cs, obs) ==
    [success |-> success, end |-> end, cs |-> cs, obs |-> obs, st |-> "ok"]

Abort(st, end, cs, obs) ==
    [success |-> FALSE, end |-> end, cs |-> cs, obs |-> obs, st |-> st]

\* BoundsFail with the slip `>` for its first `>=`: the index equal to the
\* length passes the check for every atom
BoundsFailStrict(node, len, index) ==
    index > len /\ (index > len \/ node.allowable # EndOfString)

\* the bounds check at the head of try_match
BoundsFail(node, len, index) ==
    index >= len /\ (index > len \/ node.allowable # EndOfString)

\* the test of one character by a single-character class
Accepts(allowable, c) ==
    CASE allowable.kind = "Digit" -> IsNumeric(c)
      [] allowable.kind = "Alnum" -> IsAlphanumeric(c)
      [] allowable.kind = "Wildcard" -> TRUE
      [] allowable.kind = "CharSet" -> c \in allowable.set
      [] allowable.kind = "NegCharSet" -> c \notin allowable.set

ReadsChar(allowable) ==
    allowable.kind \in {"Digit", "Alnum", "CharSet", "NegCharSet"}

HasNext(node) == IsSome(node.next)

\* cs.captured.insert(num, s)
Insert(cs, num, s) ==
    [cs EXCEPT !.captured =
        [k \in DOMAIN cs.captured \cup {num} |->
            IF k = num THEN s ELSE cs.captured[k]]]

RECURSIVE CompareCaptured(_, _, _, _)
\* `for c in captured.chars()`: the index reached, and how the loop ended
CompareCaptured(captured, text, index, obs) ==
    IF captured = <<>> THEN [how |-> "equal", index |-> index, obs |-> obs]
    ELSE LET n == NthChar(text, index) IN
         IF ~IsSome(n)
         THEN [how |-> "panic", index |-> index,
               obs |-> [obs EXCEPT !.oob = @ \cup {index}]]
         ELSE IF Head(captured) # n.c
         THEN [how |-> "differ", index |-> index, obs |-> obs]
         ELSE CompareCaptured(Tail(captured), text, index + 1, obs)

RECURSIVE try_match(_, _, _, _, _)
RECURSIVE TryAlternatives(_, _, _, _, _, _)

\* after the atom was consumed: the OnceOrMore extension, then the continuation.
\* entry is the index the call was made with: with index = entry the extension
\* is the call itself (cs is untouched between the two), and never returns.
Continue(node, text, index, entry, cs, obs) ==
    LET again == try_match(node, text, index, cs, obs)
        extended == node.repeat = "OnceOrMore" /\ index # entry
        cs1 == IF extended THEN again.cs ELSE cs
        obs1 == IF extended THEN again.obs ELSE obs
    IN
    IF node.repeat = "OnceOrMore" /\ index = entry
    THEN Abort("overflow", index, cs, obs)
    ELSE IF extended /\ (again.st # "ok" \/ again.success) THEN again
    ELSE IF HasNext(node) THEN try_match(node.next, text, index, cs1, obs1)
    ELSE Ret(TRUE, index, cs1, obs1)

\* AfterContinuationFailed as a `return (false, index)`: the group gives up
\* at the first alternative whose body matched
AfterContinuationFailedReturn(node, text, index, cs, obs, j) ==
    Ret(FALSE, index, cs, obs)

\* the body of alternative j matched and the continuation after it failed: the
\* `for` loop goes on with the next alternative
AfterContinuationFailed(node, text, index, cs, obs, j) ==
    TryAlternatives(node, text, index, cs, obs, j + 1)

\* the Group arm: `for subpattern in patterns.iter()` from alternative j on
TryAlternatives(node, text, index, cs, obs, j) ==
    LET patterns == node.allowable.patterns
        id == <<node.capture_count, index>>
        n == Len(patterns)
        body == try_match(patterns[j], text, index, cs,
                          [obs EXCEPT !.tried = @ \cup {<<id, j, n>>}])
        cs1 == Insert(body.cs, node.capture_count, Slice(text, index, body.end))
        obs1 == [body.obs EXCEPT !.bodyok = @ \cup {<<id, j, n>>},
                                 !.fresh = @ \cup {node.capture_count}]
        cont == try_match(node.next, text, body.end, cs1, obs1)
    IN
    IF j > n
    THEN Ret(FALSE, index, cs, [obs EXCEPT !.groupfail = @ \cup {<<id, n>>}])
    ELSE IF body.st # "ok" THEN body
    ELSE IF ~body.success
    THEN TryAlternatives(node, text, index, body.cs, body.obs, j + 1)
    ELSE IF ~SliceOk(text, index, body.end)
    THEN Abort("panic", index, body.cs, body.obs)
    ELSE IF ~HasNext(node) THEN Ret(TRUE, body.end, cs1, obs1)
    ELSE IF cont.st # "ok" \/ cont.success THEN cont
    ELSE AfterContinuationFailed(node, text, index, cont.cs,
            [cont.obs EXCEPT !.contfail = @ \cup {<<id, j, n>>}], j)

\* the Capture arm
MatchCapture(node, text, index, cs, obs) ==
    LET num == node.allowable.num
        cmp == CompareCaptured(cs.captured[num], text, index, obs)
        obs1 == IF num \in cmp.obs.fresh THEN cmp.obs
                ELSE [cmp.obs EXCEPT !.stale = @ \cup {num}]
    IN
    IF num \notin DOMAIN cs.captured THEN Ret(FALSE, index, cs, obs)
    ELSE IF cmp.how = "panic" THEN Abort("panic", cmp.index, cs, cmp.obs)
    ELSE IF cmp.how = "differ" THEN Ret(FALSE, cmp.index, cs, cmp.obs)
    ELSE Continue(node, text, cmp.index, index, cs, obs1)

\* `match &self.allowable { ... }` and what follows it
Consume(node, text, index, cs, obs) ==
    LET a == node.allowable
        n == NthChar(text, index)
    IN
    IF ReadsChar(a)
    THEN IF ~IsSome(n)
         THEN Abort("panic", index, cs, [obs EXCEPT !.oob = @ \cup {index}])
         ELSE IF ~Accepts(a, n.c) THEN Ret(FALSE, index, cs, obs)
         ELSE Continue(node, text, index + 1, index, cs, obs)
    ELSE IF a.kind = "Wildcard"
    THEN Continue(node, text, index + 1, index, cs, obs)
    ELSE IF a.kind = "StartOfString"
    THEN IF index # 0 THEN Ret(FALSE, index, cs, obs)
         ELSE Continue(node, text, index, index, cs, obs)
    ELSE IF a.kind = "EndOfString"
    THEN IF index # ByteLen(text) THEN Ret(FALSE, index, cs, obs)
         ELSE Continue(node, text, index, index, cs, obs)
    ELSE IF a.kind = "Group" THEN TryAlternatives(node, text, index, cs, obs, 1)
    ELSE MatchCapture(node, text, index, cs, obs)

try_match(node, text, index, cs, obs) ==
    LET len == ByteLen(text)
        obs0 == IF index >= len
                THEN [obs EXCEPT !.atend =
                        @ \cup {<<node.allowable.kind, node.repeat, index>>}]
                ELSE obs
        skip == try_match(node.next, text, index, cs, obs0)
    IN
    IF BoundsFail(node, len, index)
    THEN Ret(FALSE, index, cs,
             [obs0 EXCEPT !.endfail =
                @ \cup {<<node.allowable.kind, node.repeat, index>>}])
    ELSE IF node.repeat = "Optional"
    THEN IF HasNext(node)
         THEN IF skip.st # "ok" \/ skip.success THEN skip
              ELSE Consume(node, text, index, skip.cs, skip.obs)
         ELSE Ret(TRUE, index, cs, obs0)
    ELSE Consume(node, text, index, cs, obs0)

(***************************************************************************)
(* The inputs: a pattern and a text, drawn from bounded sets.              *)
(***************************************************************************)
SeqsUpTo(S, n) == UNION {[1..k -> S] : k \in 0..n}

TextChars == {"a", "b", "U+00E9"}

Texts == SeqsUpTo(TextChars, MaxTextLen)

\* patterns of one character that is not special at the head of a pattern
LiteralChars == {"a", "b", "1", "U+00E9", "+", "?", "|", ")", "]", "d"}

LiteralPatterns == {<<c>> : c \in LiteralChars}

Atoms ==
    { <<"a">>, <<".">>, <<"^">>, <<"$">>,
      <<"[", "^", "a", "]">>, <<"(", "a", ")">>, <<"(", "a", "|", "a", "b", ")">>,
      <<"(", ".", ".", ")">>, <<"(", "a", "?", ")">>, <<"\\", "1">> }

Quantifiers == { <<>>, <<"+">>, <<"?">> }

Units == {a \o q : a \in Atoms, q \in Quantifiers}

\* one unit, or two in a row
UnitPatterns == Units \cup {u \o v : u \in Units, v \in Units}

\* bracket expressions, closed and left open, and groups left open
SetChars == {"a", "b", "^"}

BracketPatterns ==
    {<<"[">> \o m \o e : m \in SeqsUpTo(SetChars, MaxSetLen),
                          e \in {<<"]">>, <<>>}}

OpenGroupPatterns ==
    { <<"(", "a">>, <<"(", "a", "|", "b">>, <<"(", "a", "|">>,
      <<"(", "(", "a", ")", "b">> }

Patterns ==
    LiteralPatterns \cup UnitPatterns \cup BracketPatterns \cup OpenGroupPatterns

(***************************************************************************)
(* match_string, one step per call: make_pattern, then every iteration of  *)
(* the loop of match_pattern, then its `return false`.                     *)
(***************************************************************************)
\* pattern, text : the arguments of match_string
\* pc            : "start", "search" (in the loop of match_pattern), "done",
\*                 "panic" or "overflow" (the process was aborted by try_match),
\*                 "aborted" (by parse_pattern)
\* tree, cs      : _parsed_pattern and capture
\* i             : the loop variable of match_pattern
\* result        : "none", then what match_string returns: "true" or "false"
\* unclosed      : what make_pattern left unclosed (an observation)
\* obs, last     : observations of the latest call of try_match by the loop,
\*                 last = [index, success, end, st]
VARIABLES pattern, text, pc, tree, unclosed, cs, i, result, obs, last

vars == <<pattern, text, pc, tree, unclosed, cs, i, result, obs, last>>

\* CaptureState { captured: HashMap::default(), counter: 1 }
NewCaptureState == [captured |-> <<>>, counter |-> 1]

Init ==
    /\ pattern \in Patterns
    /\ text \in Texts
    /\ pc = "start"
    /\ tree = None
    /\ unclosed = {}
    /\ cs = NewCaptureState
    /\ i = 0
    /\ result = "none"
    /\ obs = NoObs
    /\ last = None

\* let _parsed_pattern = make_pattern(pattern, &mut capture);
MakePattern ==
    /\ pc = "start"
    /\ LET r == make_pattern(pattern, cs.counter) IN
       /\ tree' = r.node
       /\ unclosed' = r.unclosed
       /\ cs' = [cs EXCEPT !.counter = r.counter]
       /\ pc' = IF r.st = "ok" THEN "search" ELSE "aborted"
    /\ UNCHANGED <<pattern, text, i, result, obs, last>>

\* LoopRuns with the slip of a range one short: the last offset is left out
LoopRunsShort(k, input_line) == k + 1 < ByteLen(input_line)

\* `for i in 0..input_line.len()`
LoopRuns(k, input_line) == k < ByteLen(input_line)

\* one iteration of the loop of match_pattern
TryOffset ==
    /\ pc = "search"
    /\ LoopRuns(i, text)
    /\ LET r == try_match(tree, text, i, cs, NoObs) IN
       /\ cs' = r.cs
       /\ obs' = r.obs
       /\ last' = [index |-> i, success |-> r.success, end |-> r.end, st |-> r.st]
       /\ pc' = IF r.st # "ok" THEN r.st
                ELSE IF r.success THEN "done" ELSE "search"
       /\ result' = IF r.st = "ok" /\ r.success THEN "true" ELSE result
       /\ i' = IF r.st = "ok" /\ ~r.success THEN i + 1 ELSE i
    /\ UNCHANGED <<pattern, text, tree, unclosed>>

\* the loop is over: return false
ReturnFalse ==
    /\ pc = "search"
    /\ ~LoopRuns(i, text)
    /\ pc' = "done"
    /\ result' = "false"
    /\ UNCHANGED <<pattern, text, tree, unclosed, cs, i, obs, last>>

Next == MakePattern \/ TryOffset \/ ReturnFalse

Spec == Init /\ [][Next]_vars

(***************************************************************************)
(* Vocabulary of the properties.                                           *)
(***************************************************************************)
Terminal == pc \in {"done", "panic", "overflow", "aborted"}

Contains(s, c) == \E k \in 1..Len(s) : s[k] = c

IsAscii(s) == \A k \in 1..Len(s) : Width(s[k]) = 1

\* a pattern of one literal character
IsLiteral(p) == Len(p) = 1 /\ p[1] \notin {"\\", "(", "[", ".", "^", "$"}

\* the capture state match_string starts the search with
SearchStart == [captured |-> <<>>, counter |-> cs.counter]

RECURSIVE Nodes(_)
RECURSIVE NodesOfAll(_)
\* every node of a tree: the chain, and the chains of the alternatives of groups
Nodes(node) ==
    {node}
    \cup (IF HasNext(node) THEN Nodes(node.next) ELSE {})
    \cup (IF node.allowable.kind = "Group"
          THEN NodesOfAll(node.allowable.patterns) ELSE {})
NodesOfAll(ps) ==
    IF ps = <<>> THEN {} ELSE Nodes(Head(ps)) \cup NodesOfAll(Tail(ps))

HasBackreference(node) == \E n \in Nodes(node) : n.allowable.kind = "Capture"

IsClass(allowable) ==
    allowable.kind \in {"Digit", "Alnum", "Wildcard", "CharSet", "NegCharSet"}

C2_SearchEveryOffset ==
    (pc = "done" /\ cs.counter = 1) =>
        (result = "true" <=>
            \E k \in 0..ByteLen(text) :
                LET r == try_match(tree, text, k, SearchStart, NoObs) IN
                r.st = "ok" /\ r.success)

\* the atom of the first node of the tree accepts the character at position m:
\* there is one, and it is in the class.  For the wildcard, which the code lets
\* advance without reading, a position is any index below the length.
AcceptedAt(m) ==
    IF tree.allowable.kind = "Wildcard" THEN m < ByteLen(text)
    ELSE /\ IsSome(NthChar(text, m))
         /\ Accepts(tree.allowable, NthChar(text, m).c)

\* the atom accepts the k characters from idx on
ClassRun(idx, k) == \A j \in 0..(k - 1) : AcceptedAt(idx + j)

\* the continuation of the first node of the tree at index m
ContinuationAt(m) == try_match(tree.next, text, m, SearchStart, NoObs)

ContinuationMatches(m) ==
    ~HasNext(tree) \/ (ContinuationAt(m).st = "ok" /\ ContinuationAt(m).success)

GoodRuns(idx) ==
    {k \in 1..ByteLen(text) : ClassRun(idx, k) /\ ContinuationMatches(idx + k)}

Longest(ks) == CHOOSE k \in ks : \A m \in ks : m <= k

GreedyEnd(idx) ==
    IF HasNext(tree) THEN ContinuationAt(idx + Longest(GoodRuns(idx))).end
    ELSE idx + Longest(GoodRuns(idx))

IsClassPlus ==
    /\ tree # None
    /\ IsClass(tree.allowable)
    /\ tree.repeat = "OnceOrMore"
    /\ ~HasNext(tree) \/ ~HasBackreference(tree.next)

GreedyAt(call) ==
    /\ (call.st = "ok" /\ call.success) <=> GoodRuns(call.index) # {}
    /\ (call.st = "ok" /\ call.success) => call.end = GreedyEnd(call.index)

\* C3: a class node with OneOrMore and a continuation without backreference
\* succeeds at index i exactly when some k >= 1 characters from i on are
\* accepted and the continuation matches at i+k, and then ends where the
\* largest such k leads.
C3_GreedyOneOrMore == (IsClassPlus /\ last # None) => GreedyAt(last)

\* C3 on the texts whose characters all have a one-byte encoding
GreedyOneOrMoreAscii ==
    (IsClassPlus /\ last # None /\ IsAscii(text)) => GreedyAt(last)

\* a bracket expression left open, a group left open
OpenBracket(p) == p # <<>> /\ p[1] = "[" /\ ~Contains(p, "]")

OpenGroup(p) == p # <<>> /\ p[1] = "(" /\ ~Contains(p, ")")

\* C4: compiling a pattern with an unclosed '[' or an unclosed '(' yields a
\* parse error: no tree is accepted and the process is not aborted.
C4_MalformedRejected ==
    (pc # "start" /\ (OpenBracket(pattern) \/ OpenGroup(pattern))) =>
        (tree = None /\ pc = "parse_error")

\* C5: try_match never reads a character at a position >= the length of the
\* text.
C5_NoReadPastEnd == \A k \in obs.oob : k < ByteLen(text)

\* C6: no backreference succeeds on a capture that was not written during the
\* current start-offset attempt.  (Stated for the texts of one-byte characters.)
C6_NoStaleCapture == IsAscii(text) => obs.stale = {}

\* C7 as stated: once the body of an alternative matched and the continuation
\* after it failed, no later alternative of the group is tried at that index.
C7_StopsAtFirstBodyMatch ==
    \A e \in obs.contfail : \A t \in obs.tried : t[1] = e[1] => t[2] <= e[2]

\* C7 as amended: the alternatives are tried in declaration order; when the
\* body of one matched and the continuation after it failed, the next one is
\* tried; a later alternative is tried only after the one before it failed in
\* its body or in its continuation; the group fails at the index only when
\* every alternative failed in one of these two ways.
C7_NextAlternativeAfterFailure ==
    /\ \A e \in obs.contfail :
          e[2] < e[3] => <<e[1], e[2] + 1, e[3]>> \in obs.tried
    /\ \A t \in obs.tried :
          t[2] > 1 =>
             /\ <<t[1], t[2] - 1, t[3]>> \in obs.tried
             /\ \/ <<t[1], t[2] - 1, t[3]>> \notin obs.bodyok
                \/ <<t[1], t[2] - 1, t[3]>> \in obs.contfail
    /\ \A g \in obs.groupfail :
          \A j \in 1..g[2] :
             /\ <<g[1], j, g[2]>> \in obs.tried
             /\ <<g[1], j, g[2]>> \in obs.bodyok
                   => <<g[1], j, g[2]>> \in obs.contfail

\* C7: the continuation failed after the first alternative, and the match was
\* made by the second
C7_Witness ==
    /\ pc = "done"
    /\ result = "true"
    /\ \E e \in obs.contfail :
          /\ e[2] < e[3]
          /\ <<e[1], e[2] + 1, e[3]>> \in obs.bodyok
          /\ <<e[1], e[2] + 1, e[3]>> \notin obs.contfail

\* C8: every call of try_match returns: none invokes itself with its own
\* arguments.
C8_Terminates == pc # "overflow"

\* a closed bracket expression over SetChars, and what is between the brackets
IsBracket(p) ==
    /\ Len(p) >= 2
    /\ p[1] = "["
    /\ p[Len(p)] = "]"
    /\ \A k \in 2..(Len(p) - 1) : p[k] \in SetChars

Members(p) == SubSeq(p, 2, Len(p) - 1)

Range(s) == {s[k] : k \in 1..Len(s)}

\* C9: a bracket expression is negated only by a '^' right after the '[';
\* every other character up to the ']', a later '^' too, is a member.
C9_NegatedByLeadingCaretOnly ==
    (pc # "start" /\ IsBracket(pattern)) =>
        tree.allowable =
            IF Members(pattern) # <<>> /\ Head(Members(pattern)) = "^"
            THEN NegCharSet(Range(Tail(Members(pattern))))
            ELSE CharSet(Range(Members(pattern)))

\* C10: a call with index >= the length of the text fails, for every node,
\* quantifier and continuation, unless the atom is EndOfString and the index is
\* the length: of the calls made, and of a call on any node of the tree.
C10_BoundsCheckFirst ==
    /\ \A c \in obs.atend :
          c \in obs.endfail \/ (c[1] = "EndOfString" /\ c[3] = ByteLen(text))
    /\ tree # None =>
          \A n \in Nodes(tree) : \A idx \in ByteLen(text)..(ByteLen(text) + 1) :
             (n.allowable.kind = "EndOfString" /\ idx = ByteLen(text))
             \/ LET r == try_match(n, text, idx, cs, NoObs) IN
                r.st = "ok" /\ ~r.success /\ r.end = idx

\* C10: an Optional node was reached at the end of the text, and the search
\* found nothing
C10_Witness ==
    /\ pc = "done"
    /\ result = "false"
    /\ \E c \in obs.endfail : c[2] = "Optional" /\ c[3] = ByteLen(text)

====
